---- MODULE Spec2Model ----
(***************************************************************************)
(* Model of the App Registry and of the startup sequence of apptranslator  *)
(* (src/main.go): the namespace registry appState.Apps with addApp,        *)
(* findApp and userIsAdmin, the data directory lookup, and main() from     *)
(* readConfig to ListenAndServe.                                           *)
(*                                                                         *)
(* Go strings that the code only compares with "" or with each other are   *)
(* TLA+ strings.  App.Name, which the code trims, is a sequence of         *)
(* one-character strings.  A *string of the config struct is Nil or a      *)
(* string.  A file path is the tuple of its components.  AppConfig.Url is  *)
(* display only and is read by no function of main.go; it is left out.     *)
(***************************************************************************)
EXTENDS Integers, Sequences, FiniteSets, TLC

VARIABLES
    pc,           \* position of main(), or "registry" for direct calls
    flags,        \* command line: [noS3Backup, inProduction]
    config,       \* the package-level config struct
    dataDir,      \* the package-level dataDir cache of getDataDir
    appState,     \* the package-level registry, [Apps |-> sequence of App]
    fs,           \* the file system: existing base dirs, status of each log file
    i,            \* index of main's range loop over config.Apps
    backupConfig, \* main's local backupConfig
    started,      \* what main has started: [backup, https, http]
    fatal,        \* message of log.Fatalf, or the panic, that ended the process
    call          \* the last call made and what it returned

vars == <<pc, flags, config, dataDir, appState, fs, i, backupConfig, started, fatal, call>>

----------------------------------------------------------------------------
(* Bounds and input sets *)

MaxApps == 2

Nil == "<nil>"

\* strings.TrimSpace removes Unicode white space; these are the ones used here
WhiteSpace == {" ", "\t", "\n", "\r"}

Names == { <<>>, <<" ">>, <<"a">>, <<" ", "a", " ">>, <<"b">>, <<"\t", "b">> }
DataDirs == {"d1", "d2"}
AdminUsers == {"", "u1"}
AdminUsers2 == {"", "u2"}
UploadSecrets == {"", "s"}
UserNames == {"", "u1", "u2", "u3"}

AppConfigs ==
    [Name : Names, DataDir : DataDirs \cup {""}, AdminTwitterUser : AdminUsers,
     AdminTwitterUser2 : AdminUsers2, UploadSecret : UploadSecrets]

NilStore == <<>>
NoErr == [kind |-> "nil", arg |-> <<>>]
NoFatal == [text |-> "", name |-> <<>>, err |-> NoErr]

----------------------------------------------------------------------------
(* The file system *)

\* getDataDir's dirsToCheck: the server's directory first, then the local one
dirsToCheck == << "../../data", "~/data/apptranslator" >>
BaseDirs == {dirsToCheck[1], dirsToCheck[2]}

FileStatus == {"absent", "ok", "corrupt"}
Paths == { <<b, d, "translations.csv">> : b \in BaseDirs, d \in DataDirs }

\* A log file exists only under an existing base directory.  When both base
\* directories exist the program reads only the first, and the files under
\* the second are taken absent.
FileSystems ==
    { f \in [dirs : SUBSET BaseDirs, files : [Paths -> FileStatus]] :
        \A p \in Paths :
            /\ p[1] \notin f.dirs => f.files[p] = "absent"
            /\ (f.dirs = BaseDirs /\ p[1] = dirsToCheck[2]) => f.files[p] = "absent" }

\* u.PathExists
PathExists(path, f) ==
    IF path \in Paths THEN f.files[path] # "absent" ELSE FALSE

\* store.NewStoreCsv: opens the log at path and rebuilds the index by replay;
\* an undecodable record aborts the load with an error
NewStoreCsv(path, f) ==
    IF path \in Paths /\ f.files[path] = "ok"
    THEN [store |-> path, err |-> NoErr]
    ELSE [store |-> NilStore, err |-> [kind |-> "corrupt record", arg |-> path]]

----------------------------------------------------------------------------
(* Pure functions of main.go *)

stringEmpty(s) == s = Nil \/ s = ""

s3BackupEnabled(fl, cfg) ==
    IF fl.noS3Backup THEN FALSE
    ELSE IF ~fl.inProduction THEN FALSE
    ELSE IF stringEmpty(cfg.AwsAccess) THEN FALSE
    ELSE IF stringEmpty(cfg.AwsSecret) THEN FALSE
    ELSE IF stringEmpty(cfg.S3BackupBucket) THEN FALSE
    ELSE IF stringEmpty(cfg.S3BackupDir) THEN FALSE
    ELSE TRUE

DataDirFatal == [text |-> "data directory doesn't exist", name |-> <<>>, err |-> NoErr]

\* returns the directory and whether log.Fatalf ended the process
getDataDir(dd, f) ==
    IF dd # "" THEN [dir |-> dd, fatal |-> FALSE]
    ELSE IF dirsToCheck[1] \in f.dirs THEN [dir |-> dirsToCheck[1], fatal |-> FALSE]
    ELSE IF dirsToCheck[2] \in f.dirs THEN [dir |-> dirsToCheck[2], fatal |-> FALSE]
    ELSE [dir |-> "", fatal |-> TRUE]

NewApp(cfg) ==
    [Name |-> cfg.Name, DataDir |-> cfg.DataDir,
     AdminTwitterUser |-> cfg.AdminTwitterUser,
     AdminTwitterUser2 |-> cfg.AdminTwitterUser2,
     UploadSecret |-> cfg.UploadSecret, store |-> NilStore]

\* filepath.Join(getDataDir(), a.DataDir, "translations.csv"), dir = getDataDir()
storeCsvFilePath(app, dir) == <<dir, app.DataDir, "translations.csv">>

RECURSIVE TrimLeft(_)
TrimLeft(s) ==
    IF s = <<>> THEN s
    ELSE IF Head(s) \in WhiteSpace THEN TrimLeft(Tail(s)) ELSE s

RECURSIVE TrimRight(_)
TrimRight(s) ==
    IF s = <<>> THEN s
    ELSE IF s[Len(s)] \in WhiteSpace THEN TrimRight(SubSeq(s, 1, Len(s) - 1)) ELSE s

\* strings.TrimSpace
TrimSpace(s) == TrimRight(TrimLeft(s))

\* the result of one call that can return an error or end the process
Result(app, apps, dd, f, err, ftl) ==
    [app |-> app, apps |-> apps, dataDir |-> dd, fs |-> f, err |-> err, fatal |-> ftl]

\* readAppData that creates the missing log file and opens it
readAppData_autoCreate(app, apps, dd, f) ==
    LET g == getDataDir(dd, f) IN
    IF g.fatal THEN Result(app, apps, dd, f, NoErr, DataDirFatal)
    ELSE
        LET path == storeCsvFilePath(app, g.dir)
            f2 == IF PathExists(path, f) THEN f ELSE [f EXCEPT !.files[path] = "ok"]
            l == NewStoreCsv(path, f2)
        IN  IF l.err = NoErr
            THEN Result([app EXCEPT !.store = l.store], apps, g.dir, f2, NoErr, NoFatal)
            ELSE Result(app, apps, g.dir, f2,
                        [kind |-> "readAppData: data file doesn't exist", arg |-> path], NoFatal)

\* readAppData that keeps the store of a failed load and reports success
readAppData_ignoreLoadErr(app, apps, dd, f) ==
    LET g == getDataDir(dd, f) IN
    IF g.fatal THEN Result(app, apps, dd, f, NoErr, DataDirFatal)
    ELSE
        LET path == storeCsvFilePath(app, g.dir) IN
        IF PathExists(path, f)
        THEN Result([app EXCEPT !.store = NewStoreCsv(path, f).store], apps, g.dir, f,
                    NoErr, NoFatal)
        ELSE Result(app, apps, g.dir, f,
                    [kind |-> "readAppData: data file doesn't exist", arg |-> path], NoFatal)

readAppData(app, apps, dd, f) ==
    LET g == getDataDir(dd, f) IN
    IF g.fatal THEN Result(app, apps, dd, f, NoErr, DataDirFatal)
    ELSE
        LET path == storeCsvFilePath(app, g.dir)
            missing == [kind |-> "readAppData: data file doesn't exist", arg |-> path]
        IN  IF PathExists(path, f)
            THEN LET l == NewStoreCsv(path, f) IN
                 IF l.err = NoErr
                 THEN Result([app EXCEPT !.store = l.store], apps, g.dir, f, NoErr, NoFatal)
                 ELSE Result(app, apps, g.dir, f, missing, NoFatal)
            ELSE Result(app, apps, g.dir, f, missing, NoFatal)

\* the index of the first app named name, 0 for nil
RECURSIVE findFrom(_, _, _)
findFrom(name, apps, k) ==
    IF k > Len(apps) THEN 0
    ELSE IF apps[k].Name = name THEN k
    ELSE findFrom(name, apps, k + 1)

\* findApp whose loop skips the first app
findApp_skipFirst(name, apps) == findFrom(name, apps, 2)

findApp(name, apps) == findFrom(name, apps, 1)

\* appAlreadyExists that never finds a collision
appAlreadyExists_never(name, apps) == FALSE

appAlreadyExists(name, apps) == 0 # findApp(name, apps)

\* appInvalidField that forgets the upload secret
appInvalidField_noSecret(app0) ==
    LET app == [app0 EXCEPT !.Name = TrimSpace(app0.Name)] IN
    [app |-> app,
     field |-> IF app.Name = <<>> THEN "Name"
               ELSE IF app.DataDir = "" THEN "DataDir"
               ELSE IF app.AdminTwitterUser = "" THEN "AdminTwitterUser"
               ELSE ""]

\* appInvalidField assigns the trimmed name to app.Name, then checks: the app
\* as it leaves it, and the field it names
appInvalidField(app0) ==
    LET app == [app0 EXCEPT !.Name = TrimSpace(app0.Name)] IN
    [app |-> app,
     field |-> IF app.Name = <<>> THEN "Name"
               ELSE IF app.DataDir = "" THEN "DataDir"
               ELSE IF app.AdminTwitterUser = "" THEN "AdminTwitterUser"
               ELSE IF app.UploadSecret = "" THEN "UploadSecret"
               ELSE ""]

\* addApp that stores the new app as the whole registry instead of appending it
addApp_replace(app0, apps, dd, f) ==
    LET v == appInvalidField(app0)
        app == v.app
    IN  IF v.field # ""
        THEN Result(app, apps, dd, f,
                    [kind |-> "App has invalid field", arg |-> <<v.field>>], NoFatal)
        ELSE IF appAlreadyExists(app.Name, apps)
        THEN Result(app, apps, dd, f, [kind |-> "App already exists", arg |-> <<>>], NoFatal)
        ELSE LET r == readAppData(app, apps, dd, f) IN
             IF r.err # NoErr \/ r.fatal # NoFatal THEN r
             ELSE [r EXCEPT !.apps = <<r.app>>]

addApp(app0, apps, dd, f) ==
    LET v == appInvalidField(app0)
        app == v.app
    IN  IF v.field # ""
        THEN Result(app, apps, dd, f,
                    [kind |-> "App has invalid field", arg |-> <<v.field>>], NoFatal)
        ELSE IF appAlreadyExists(app.Name, apps)
        THEN Result(app, apps, dd, f, [kind |-> "App already exists", arg |-> <<>>], NoFatal)
        ELSE LET r == readAppData(app, apps, dd, f) IN
             IF r.err # NoErr \/ r.fatal # NoFatal THEN r
             ELSE [r EXCEPT !.apps = Append(r.apps, r.app)]

\* userIsAdmin without the test for an absent user
userIsAdmin_noEmptyCheck(app, user) ==
    user = app.AdminTwitterUser \/ user = app.AdminTwitterUser2

userIsAdmin(app, user) ==
    IF user = "" THEN FALSE
    ELSE user = app.AdminTwitterUser \/ user = app.AdminTwitterUser2


----------------------------------------------------------------------------
(* Configuration *)

\* the config struct as declared: every pointer nil, no apps
InitConfig ==
    [Apps |-> <<>>, CookieAuthKeyHexStr |-> Nil, CookieEncrKeyHexStr |-> Nil,
     AwsAccess |-> Nil, AwsSecret |-> Nil, S3BackupBucket |-> Nil, S3BackupDir |-> Nil]

\* a key of config.json is absent (Nil), empty or set
PtrVals == {Nil, "", "v"}

\* a cookie key is absent, not hexadecimal, hexadecimal but refused by
\* securecookie, or usable
CookieKeyVals == {Nil, "not-hex", "hex-bad-key", "hex-good-key"}

GoodApp ==
    [Name |-> <<"a">>, DataDir |-> "d1", AdminTwitterUser |-> "u1",
     AdminTwitterUser2 |-> "", UploadSecret |-> "s"]

\* the apps of the config files main is run on
MainAppConfigs ==
    { c \in AppConfigs :
        /\ c.Name \in { <<>>, <<"a">>, <<" ", "a", " ">>, <<"b">> }
        /\ c.DataDir # ""
        /\ c.AdminTwitterUser = "u1"
        /\ c.AdminTwitterUser2 = ""
        /\ c.UploadSecret = "s" }

AppLists == UNION { [1..n -> MainAppConfigs] : n \in 0..MaxApps }

GoodConfig ==
    [Apps |-> <<GoodApp>>,
     CookieAuthKeyHexStr |-> "hex-good-key", CookieEncrKeyHexStr |-> "hex-good-key",
     AwsAccess |-> "v", AwsSecret |-> "v", S3BackupBucket |-> "v", S3BackupDir |-> "v"]

File(readable, json, content) == [readable |-> readable, json |-> json, content |-> content]

\* the config files main is run on: an unreadable one, one that is not JSON,
\* every list of apps, every combination of the backup settings, every
\* combination of the cookie keys
ConfigFiles ==
    { File(FALSE, FALSE, InitConfig), File(TRUE, FALSE, InitConfig) }
    \cup { File(TRUE, TRUE, [GoodConfig EXCEPT !.Apps = l]) : l \in AppLists }
    \cup { File(TRUE, TRUE, [GoodConfig EXCEPT !.AwsAccess = w[1], !.AwsSecret = w[2],
                                               !.S3BackupBucket = w[3], !.S3BackupDir = w[4]]) :
             w \in PtrVals \X PtrVals \X PtrVals \X PtrVals }
    \cup { File(TRUE, TRUE, [GoodConfig EXCEPT !.CookieAuthKeyHexStr = k[1],
                                               !.CookieEncrKeyHexStr = k[2]]) :
             k \in CookieKeyVals \X CookieKeyVals }

ErrOf(kind) == [kind |-> kind, arg |-> <<>>]

\* readConfig: the new config, the error returned, and whether it panicked on
\* a nil cookie key
readConfig(file, cfg) ==
    IF ~file.readable THEN [config |-> cfg, err |-> ErrOf("ReadFile"), panic |-> FALSE]
    ELSE IF ~file.json THEN [config |-> cfg, err |-> ErrOf("Unmarshal"), panic |-> FALSE]
    ELSE LET c == file.content IN
         IF c.CookieAuthKeyHexStr = Nil THEN [config |-> c, err |-> NoErr, panic |-> TRUE]
         ELSE IF c.CookieAuthKeyHexStr = "not-hex"
         THEN [config |-> c, err |-> ErrOf("hex.DecodeString"), panic |-> FALSE]
         ELSE IF c.CookieEncrKeyHexStr = Nil THEN [config |-> c, err |-> NoErr, panic |-> TRUE]
         ELSE IF c.CookieEncrKeyHexStr = "not-hex"
         THEN [config |-> c, err |-> ErrOf("hex.DecodeString"), panic |-> FALSE]
         ELSE IF "hex-bad-key" \in {c.CookieAuthKeyHexStr, c.CookieEncrKeyHexStr}
         THEN [config |-> c, err |-> ErrOf("securecookie.Encode"), panic |-> FALSE]
         ELSE [config |-> c, err |-> NoErr, panic |-> FALSE]

----------------------------------------------------------------------------
(* State *)

NoApp ==
    [Name |-> <<>>, DataDir |-> "", AdminTwitterUser |-> "", AdminTwitterUser2 |-> "",
     UploadSecret |-> "", store |-> NilStore]

Call(op, arg, name, user, idx, ok, err, app) ==
    [op |-> op, arg |-> arg, name |-> name, user |-> user, idx |-> idx, ok |-> ok,
     err |-> err, app |-> app]

NoCall == Call("", NoApp, <<>>, "", 0, FALSE, NoErr, NoApp)

NoBackupConfig ==
    [AwsAccess |-> "", AwsSecret |-> "", Bucket |-> "", S3Dir |-> "", LocalDir |-> ""]

Panic == [text |-> "nil pointer dereference", name |-> <<>>, err |-> NoErr]

\* the package-level variables as declared, on some file system
InitVars ==
    /\ config = InitConfig
    /\ dataDir = ""
    /\ appState = [Apps |-> <<>>]
    /\ fs \in FileSystems
    /\ i = 1
    /\ backupConfig = NoBackupConfig
    /\ started = [backup |-> FALSE, https |-> FALSE, http |-> FALSE]
    /\ fatal = NoFatal
    /\ call = NoCall

\* main() after flag.Parse and NewServerLogger
Init ==
    /\ pc = "readConfig"
    /\ flags \in [noS3Backup : BOOLEAN, inProduction : BOOLEAN]
    /\ InitVars

----------------------------------------------------------------------------
(* main() *)

main_readConfig ==
    /\ pc = "readConfig"
    /\ \E file \in ConfigFiles :
          LET r == readConfig(file, config) IN
          /\ config' = r.config
          /\ IF r.panic THEN pc' = "panic" /\ fatal' = Panic
             ELSE IF r.err # NoErr
             THEN /\ pc' = "fatal"
                  /\ fatal' = [text |-> "Failed reading config file", name |-> <<>>, err |-> r.err]
             ELSE pc' = "addApps" /\ fatal' = fatal
    /\ UNCHANGED <<flags, dataDir, appState, fs, i, backupConfig, started, call>>

\* the loop iteration that logs a failed addApp and goes on to the next app
main_addApp_ignoreErr ==
    /\ pc = "addApps"
    /\ i <= Len(config.Apps)
    /\ LET r == addApp(NewApp(config.Apps[i]), appState.Apps, dataDir, fs) IN
       /\ appState' = [appState EXCEPT !.Apps = r.apps]
       /\ dataDir' = r.dataDir
       /\ fs' = r.fs
       /\ call' = Call("addApp", NewApp(config.Apps[i]), <<>>, "", 0, FALSE, r.err, r.app)
       /\ IF r.fatal # NoFatal THEN pc' = "fatal" /\ fatal' = r.fatal /\ i' = i
          ELSE pc' = pc /\ fatal' = fatal /\ i' = i + 1
    /\ UNCHANGED <<flags, config, backupConfig, started>>

\* one iteration of the loop over config.Apps
main_addApp ==
    /\ pc = "addApps"
    /\ i <= Len(config.Apps)
    /\ LET r == addApp(NewApp(config.Apps[i]), appState.Apps, dataDir, fs) IN
       /\ appState' = [appState EXCEPT !.Apps = r.apps]
       /\ dataDir' = r.dataDir
       /\ fs' = r.fs
       /\ call' = Call("addApp", NewApp(config.Apps[i]), <<>>, "", 0, FALSE, r.err, r.app)
       /\ IF r.fatal # NoFatal THEN pc' = "fatal" /\ fatal' = r.fatal /\ i' = i
          ELSE IF r.err # NoErr
          THEN /\ pc' = "fatal"
               /\ fatal' = [text |-> "Failed to add the app", name |-> r.app.Name, err |-> r.err]
               /\ i' = i
          ELSE pc' = pc /\ fatal' = fatal /\ i' = i + 1
    /\ UNCHANGED <<flags, config, backupConfig, started>>

\* the loop is over: at least one app must be registered
main_checkApps ==
    /\ pc = "addApps"
    /\ i > Len(config.Apps)
    /\ IF Len(appState.Apps) = 0
       THEN /\ pc' = "fatal"
            /\ fatal' = [text |-> "No apps defined in config.json", name |-> <<>>, err |-> NoErr]
       ELSE pc' = "backupConfig" /\ fatal' = fatal
    /\ UNCHANGED <<flags, config, dataDir, appState, fs, i, backupConfig, started, call>>

\* backupConfig := &BackupConfig{...}: dereferences the four settings
main_backupConfig ==
    /\ pc = "backupConfig"
    /\ IF Nil \in {config.AwsAccess, config.AwsSecret, config.S3BackupBucket, config.S3BackupDir}
       THEN pc' = "panic" /\ fatal' = Panic /\ UNCHANGED <<dataDir, backupConfig>>
       ELSE LET g == getDataDir(dataDir, fs) IN
            IF g.fatal
            THEN pc' = "fatal" /\ fatal' = DataDirFatal /\ UNCHANGED <<dataDir, backupConfig>>
            ELSE /\ pc' = "s3Backup"
                 /\ fatal' = fatal
                 /\ dataDir' = g.dir
                 /\ backupConfig' =
                       [AwsAccess |-> config.AwsAccess, AwsSecret |-> config.AwsSecret,
                        Bucket |-> config.S3BackupBucket, S3Dir |-> config.S3BackupDir,
                        LocalDir |-> g.dir]
    /\ UNCHANGED <<flags, config, appState, fs, i, started, call>>

\* if s3BackupEnabled() { go s3BackupLoop(backupConfig) }
main_s3Backup ==
    /\ pc = "s3Backup"
    /\ started' = [started EXCEPT !.backup = s3BackupEnabled(flags, config)]
    /\ pc' = "https"
    /\ UNCHANGED <<flags, config, dataDir, appState, fs, i, backupConfig, fatal, call>>

\* if *inProduction { go srv.ListenAndServeTLS }
main_https ==
    /\ pc = "https"
    /\ started' = [started EXCEPT !.https = flags.inProduction]
    /\ pc' = "listen"
    /\ UNCHANGED <<flags, config, dataDir, appState, fs, i, backupConfig, fatal, call>>

\* srv.ListenAndServe(): serves, or fails and main returns
main_ListenAndServe ==
    /\ pc = "listen"
    /\ \E ok \in BOOLEAN :
          IF ok THEN pc' = "serving" /\ started' = [started EXCEPT !.http = TRUE]
          ELSE pc' = "exited" /\ started' = started
    /\ UNCHANGED <<flags, config, dataDir, appState, fs, i, backupConfig, fatal, call>>

\* a request handler: resolves the namespace and checks the user against it
handler ==
    /\ pc = "serving"
    /\ call.op # "handler"
    /\ \E name \in Names, user \in UserNames :
          LET idx == findApp(name, appState.Apps) IN
          call' = Call("handler", NoApp, name, user, idx,
                       IF idx = 0 THEN FALSE ELSE userIsAdmin(appState.Apps[idx], user),
                       NoErr, IF idx = 0 THEN NoApp ELSE appState.Apps[idx])
    /\ UNCHANGED <<pc, flags, config, dataDir, appState, fs, i, backupConfig, started, fatal>>

\* the handler has answered; the server waits for the next request
handler_return ==
    /\ pc = "serving"
    /\ call.op = "handler"
    /\ call' = NoCall
    /\ UNCHANGED <<pc, flags, config, dataDir, appState, fs, i, backupConfig, started, fatal>>

Next ==
    \/ main_readConfig
    \/ main_addApp
    \/ main_checkApps
    \/ main_backupConfig
    \/ main_s3Backup
    \/ main_https
    \/ main_ListenAndServe
    \/ handler
    \/ handler_return

Spec == Init /\ [][Next]_vars

----------------------------------------------------------------------------
(* The registry called directly: any sequence of addApp, findApp, userIsAdmin *)

InitRegistry ==
    /\ pc = "registry"
    /\ flags = [noS3Backup |-> FALSE, inProduction |-> FALSE]
    /\ InitVars

call_addApp ==
    /\ pc = "registry"
    /\ call = NoCall
    /\ \E cfg \in AppConfigs :
          LET r == addApp(NewApp(cfg), appState.Apps, dataDir, fs) IN
          /\ appState' = [appState EXCEPT !.Apps = r.apps]
          /\ dataDir' = r.dataDir
          /\ fs' = r.fs
          /\ call' = Call("addApp", NewApp(cfg), <<>>, "", 0, FALSE, r.err, r.app)
          /\ IF r.fatal # NoFatal THEN pc' = "fatal" /\ fatal' = r.fatal
             ELSE pc' = pc /\ fatal' = fatal
    /\ UNCHANGED <<flags, config, i, backupConfig, started>>

call_findApp ==
    /\ pc = "registry"
    /\ call = NoCall
    /\ \E name \in Names :
          LET idx == findApp(name, appState.Apps) IN
          call' = Call("findApp", NoApp, name, "", idx, idx # 0, NoErr,
                       IF idx = 0 THEN NoApp ELSE appState.Apps[idx])
    /\ UNCHANGED <<pc, flags, config, dataDir, appState, fs, i, backupConfig, started, fatal>>

call_userIsAdmin ==
    /\ pc = "registry"
    /\ call = NoCall
    /\ \E k \in 1..Len(appState.Apps), user \in UserNames :
          call' = Call("userIsAdmin", NoApp, <<>>, user, k,
                       userIsAdmin(appState.Apps[k], user), NoErr, appState.Apps[k])
    /\ UNCHANGED <<pc, flags, config, dataDir, appState, fs, i, backupConfig, started, fatal>>

\* the caller has taken the result and is ready for the next call
call_return ==
    /\ pc = "registry"
    /\ call # NoCall
    /\ call' = NoCall
    /\ UNCHANGED <<pc, flags, config, dataDir, appState, fs, i, backupConfig, started, fatal>>

NextRegistry ==
    \/ call_addApp
    \/ call_findApp
    \/ call_userIsAdmin
    \/ call_return

SpecRegistry == InitRegistry /\ [][NextRegistry]_vars


----------------------------------------------------------------------------
(* Properties of the registry *)

InvalidField == "App has invalid field"
AlreadyExists == "App already exists"
DataFileMissing == "readAppData: data file doesn't exist"

\* a name with nothing but white space in it
Blank(n) == \A k \in 1..Len(n) : n[k] \in WhiteSpace

FieldOrder == << "Name", "DataDir", "AdminTwitterUser", "UploadSecret" >>

\* the required fields (as indexes of FieldOrder) that the config a lacks
MissingFields(a) ==
    { k \in DOMAIN FieldOrder :
        CASE k = 1 -> Blank(a.Name)
          [] k = 2 -> a.DataDir = ""
          [] k = 3 -> a.AdminTwitterUser = ""
          [] k = 4 -> a.UploadSecret = "" }

\* as MissingFields, with the administrator missing only when both are empty
MissingFieldsEitherAdmin(a) ==
    { k \in DOMAIN FieldOrder :
        CASE k = 1 -> Blank(a.Name)
          [] k = 2 -> a.DataDir = ""
          [] k = 3 -> a.AdminTwitterUser = "" /\ a.AdminTwitterUser2 = ""
          [] k = 4 -> a.UploadSecret = "" }

First(m) == CHOOSE k \in m : \A j \in m : k <= j

NamesOf(apps) == { apps[k].Name : k \in 1..Len(apps) }

\* a step that is a call of addApp
IsAddAppStep == call = NoCall /\ call'.op = "addApp"

\* C1 (as amended): addApp returns the invalid-field error exactly when the
\* trimmed name is empty, or DataDir is empty, or AdminTwitterUser (the first
\* administrator, whatever AdminTwitterUser2 is) is empty, or UploadSecret is
\* empty, and the error names the first missing field in the order Name,
\* DataDir, AdminTwitterUser, UploadSecret.
C1_InvalidFieldExactly ==
    call.op = "addApp" =>
        LET m == MissingFields(call.arg) IN
        IF m = {} THEN call.err.kind # InvalidField
        ELSE call.err = [kind |-> InvalidField, arg |-> <<FieldOrder[First(m)]>>]

\* C1 witness: a config whose only administrator is AdminTwitterUser2 was
\* passed to addApp and rejected for AdminTwitterUser
C1_Witness ==
    /\ call.op = "addApp"
    /\ call.arg.AdminTwitterUser = "" /\ call.arg.AdminTwitterUser2 # ""
    /\ call.err = [kind |-> InvalidField, arg |-> <<"AdminTwitterUser">>]

\* C1 as stated: the administrator is missing only when neither
\* AdminTwitterUser nor AdminTwitterUser2 is set
C1_AsStated ==
    call.op = "addApp" =>
        LET m == MissingFieldsEitherAdmin(call.arg) IN
        IF m = {} THEN call.err.kind # InvalidField
        ELSE call.err.kind = InvalidField

\* the step property of C2: no two registered namespaces have the same name, and an addApp whose
\* trimmed name is already registered fails (with the already-exists error
\* when the config passes validation) and leaves the registry as it was.
C2_Step ==
    /\ \A j, k \in 1..Len(appState.Apps') :
          appState.Apps'[j].Name = appState.Apps'[k].Name => j = k
    /\ (IsAddAppStep /\ TrimSpace(call'.arg.Name) \in NamesOf(appState.Apps)) =>
          /\ call'.err # NoErr
          /\ appState' = appState
          /\ MissingFields(call'.arg) = {} => call'.err.kind = AlreadyExists

C3_Step ==
    (/\ IsAddAppStep
     /\ MissingFields(call'.arg) = {}
     /\ TrimSpace(call'.arg.Name) \notin NamesOf(appState.Apps)
     /\ fatal' = NoFatal
     /\ fs.files[<<dataDir', call'.arg.DataDir, "translations.csv">>] = "absent")
    =>
    /\ call'.err = [kind |-> DataFileMissing,
                    arg |-> <<dataDir', call'.arg.DataDir, "translations.csv">>]
    /\ fs' = fs
    /\ call'.app.store = NilStore
    /\ appState' = appState

\* C3: an addApp whose log file is absent returns the data-file-missing error
\* and changes neither the file system nor the registry, in every step
C3_MissingStorage == [][C3_Step]_vars

\* C3 witness: with one namespace registered, addApp of another valid config
\* failed because its log file is absent
C3_Witness ==
    /\ Len(appState.Apps) = 1
    /\ call.op = "addApp"
    /\ call.err.kind = DataFileMissing
    /\ fs.files[call.err.arg] = "absent"

\* C4: every namespace in the registry has a loaded store (the store of its
\* own log file, which exists and loads) and has all the required fields.
C4_RegisteredAreLoaded ==
    \A k \in 1..Len(appState.Apps) :
        LET a == appState.Apps[k] IN
        /\ a.store # NilStore
        /\ a.store = <<dataDir, a.DataDir, "translations.csv">>
        /\ fs.files[a.store] = "ok"
        /\ MissingFields(a) = {}
        /\ a.Name = TrimSpace(a.Name)

\* C4 witness: a namespace is registered while the log file of the other
\* storage location exists and does not load
C4_Witness ==
    /\ Len(appState.Apps) = 1
    /\ \E p \in Paths : fs.files[p] = "corrupt"
    /\ call.op = "addApp" /\ call.err = NoErr /\ fatal = NoFatal

\* the state property of C6: findApp(n) returns the registered namespace named exactly n if there is
\* one and nil otherwise; after a successful addApp, findApp with the trimmed
\* name returns the app just added; findApp leaves the registry unchanged.
C6_State ==
    /\ call.op = "findApp" =>
          IF call.name \in NamesOf(appState.Apps)
          THEN /\ call.idx \in 1..Len(appState.Apps)
               /\ appState.Apps[call.idx].Name = call.name
               /\ call.app = appState.Apps[call.idx]
          ELSE call.idx = 0
    /\ (call.op = "addApp" /\ call.err = NoErr /\ fatal = NoFatal) =>
          /\ findApp(TrimSpace(call.arg.Name), appState.Apps) = Len(appState.Apps)
          /\ appState.Apps[Len(appState.Apps)] = call.app

\* C6: findApp resolves exactly the registered names, in every state, and no
\* findApp step changes the registry
C6_Resolve ==
    /\ []C6_State
    /\ [][(call = NoCall /\ call'.op = "findApp") => appState' = appState]_vars

\* C6 witness: findApp returned the second of two registered namespaces
C6_Witness ==
    /\ Len(appState.Apps) = 2
    /\ call.op = "findApp"
    /\ call.idx = 2

\* C7: userIsAdmin is true exactly when the user is not empty and equals one
\* of the two administrators of the namespace.
C7_AdminOnly ==
    call.op = "userIsAdmin" =>
        LET a == appState.Apps[call.idx] IN
        call.ok <=> (call.user # "" /\ call.user \in {a.AdminTwitterUser, a.AdminTwitterUser2})

\* C7 witness: the absent user was checked against a namespace without a
\* second administrator and is no administrator
C7_Witness ==
    /\ call.op = "userIsAdmin"
    /\ call.user = ""
    /\ appState.Apps[call.idx].AdminTwitterUser2 = ""
    /\ ~call.ok


----------------------------------------------------------------------------
(* Properties of main() *)

\* main has started the backup loop or an HTTP listener
Serving == started.backup \/ started.https \/ started.http

\* the k-th registered app is the k-th app of the configuration, loaded
RegisteredFrom(a, c) ==
    /\ a.Name = TrimSpace(c.Name)
    /\ a.DataDir = c.DataDir
    /\ a.AdminTwitterUser = c.AdminTwitterUser
    /\ a.AdminTwitterUser2 = c.AdminTwitterUser2
    /\ a.UploadSecret = c.UploadSecret
    /\ a.store # NilStore

\* C5: main starts the backup loop or a listener only when every app of the
\* configuration is registered and the registry is not empty; a process that
\* ended in log.Fatalf or a panic has started none of them.
C5_ServeOnlyWhenAllRegistered ==
    /\ Serving =>
          /\ Len(appState.Apps) > 0
          /\ Len(appState.Apps) = Len(config.Apps)
          /\ \A k \in 1..Len(config.Apps) : RegisteredFrom(appState.Apps[k], config.Apps[k])
    /\ pc \in {"fatal", "panic"} => ~Serving

\* C5 witness: main is serving HTTP with two apps configured and registered
C5_Witness ==
    /\ pc = "serving"
    /\ started.http
    /\ Len(config.Apps) = 2
    /\ Len(appState.Apps) = 2

\* the file system f without the file at path
WithoutFile(f, path) == [f EXCEPT !.files[path] = "absent"]

\* main ended because readAppData failed for the app of the last addApp
LoadAborted ==
    /\ pc = "fatal"
    /\ fatal.text = "Failed to add the app"
    /\ fatal.err.kind \notin {InvalidField, AlreadyExists}

\* C8: when startup is aborted because a namespace cannot be loaded, the
\* fatal message names the namespace, the namespace is not registered, and a
\* log file that exists but fails to load gives another message than the
\* same log file being absent.
C8_DistinguishableCause ==
    LoadAborted =>
        /\ fatal.name = call.app.Name
        /\ call.app.Name \notin NamesOf(appState.Apps)
        /\ PathExists(fatal.err.arg, fs) =>
              fatal.err # readAppData(call.app, appState.Apps, dataDir,
                                      WithoutFile(fs, fatal.err.arg)).err

\* the step property of C9: the registry only grows, by appending, and only while main is in its
\* loop over config.Apps; registered apps keep all their fields; no step
\* after that loop changes the registry.
C9_Step ==
    /\ Len(appState.Apps') >= Len(appState.Apps)
    /\ \A k \in 1..Len(appState.Apps) : appState.Apps'[k] = appState.Apps[k]
    /\ (pc # "addApps" \/ Serving) => appState' = appState

\* C9: the registry only grows, only in main's loop, in every step
C9_RegistryOnlyGrows == [][C9_Step]_vars

\* C9 witness: a handler has run while two apps are registered
C9_Witness ==
    /\ pc = "serving"
    /\ call.op = "handler"
    /\ call.idx = 2
    /\ Len(appState.Apps) = 2

\* backup is enabled: no -no-backup, in production, the four settings set
BackupEnabled ==
    /\ ~flags.noS3Backup
    /\ flags.inProduction
    /\ \A v \in {config.AwsAccess, config.AwsSecret, config.S3BackupBucket, config.S3BackupDir} :
          v # Nil /\ v # ""

\* C10: once the apps are registered, main starts the backup loop exactly
\* when backup is enabled, and when it is not enabled main still goes on to
\* start the HTTP server (it does not end in a panic).
C10_BackupIffEnabled ==
    /\ pc \in {"https", "listen", "serving", "exited"} => (started.backup <=> BackupEnabled)
    /\ (Len(appState.Apps) > 0 /\ ~BackupEnabled) => pc # "panic"


====
